---- MODULE Spec2Model ----
(***************************************************************************)
(* Model of src/src/investing_fetcher.py: fetch_vnmidcap_from_investing,   *)
(* the retry loop with exponential backoff around investiny's              *)
(* historical_data and the pandas normalisation of its response.           *)
(*                                                                         *)
(* A call is a sequential process that blocks in two places: time.sleep    *)
(* (line 43) and the adapter call historical_data (line 49).  Each action  *)
(* runs the code from one blocking point to the next one or to a return.   *)
(* Every call of st.info/warning/error/success/code, of time.sleep and of  *)
(* historical_data is appended to the call's log in program order.         *)
(***************************************************************************)
EXTENDS Integers, Sequences, FiniteSets, TLC

VARIABLES
    dep_ok,       \* whether "from investiny import historical_data" succeeds
    today,        \* the date part of datetime.now(), as a day ordinal
    rollovers,    \* how many times midnight has passed
    pc,           \* per call: "idle", "start", "sleeping", "awaiting", "done"
    max_retries,  \* per call: the argument max_retries
    period_days,  \* per call: the argument period_days
    from_date,    \* per call: the local from_date (wire format)
    to_date,      \* per call: the local to_date (wire format)
    attempt,      \* per call: the loop variable attempt
    remaining,    \* per call: time units left of the current time.sleep
    slept,        \* per call: time units spent in time.sleep so far
    data,         \* per call: the local data, the answer to the last adapter
                  \* call (or that it raised), until the next call is issued
    outcomes,     \* per call: the way each iteration so far has ended
    ret,          \* per call: the value returned and the line returning it
    log,          \* per call: the effects of the call, in program order
    calls,        \* per call: the arguments of each historical_data call
    cancel        \* per call: the caller has raised a cancellation signal

vars == <<dep_ok, today, rollovers, pc, max_retries, period_days, from_date,
          to_date, attempt, remaining, slept, data, outcomes, ret, log, calls,
          cancel>>

(***************************************************************************)
(* Bounds of the model.                                                    *)
(***************************************************************************)
MaxRetries == 3
MaxRows == 2
MaxRollovers == 1

Callers == {"c1", "c2"}

RetryArgs == (0 - 1) .. MaxRetries
PeriodArgs == {30, 365}

(***************************************************************************)
(* Calendar: datetime arithmetic and the wire format "%m/%d/%Y".  A date   *)
(* is a day ordinal counted from 2023-01-01; a wire string "MM/DD/YYYY"    *)
(* is the tuple <<MM, DD, YYYY>>.                                          *)
(***************************************************************************)
NaT == -1

IsLeap(y) == (y % 4 = 0 /\ y % 100 # 0) \/ y % 400 = 0

DaysInYear(y) == IF IsLeap(y) THEN 366 ELSE 365

DaysInMonth(m, y) ==
    IF m = 2 THEN (IF IsLeap(y) THEN 29 ELSE 28)
    ELSE IF m \in {4, 6, 9, 11} THEN 30 ELSE 31

RECURSIVE DaysBeforeYear(_)
DaysBeforeYear(y) ==
    IF y <= 2023 THEN 0 ELSE DaysBeforeYear(y - 1) + DaysInYear(y - 1)

RECURSIVE DaysBeforeMonth(_, _)
DaysBeforeMonth(m, y) ==
    IF m <= 1 THEN 0 ELSE DaysBeforeMonth(m - 1, y) + DaysInMonth(m - 1, y)

ToOrdinal(s) == DaysBeforeYear(s[3]) + DaysBeforeMonth(s[1], s[3]) + (s[2] - 1)

RECURSIVE MonthDayOf(_, _, _)
MonthDayOf(n, m, y) ==
    IF n < DaysInMonth(m, y) THEN <<m, n + 1, y>>
    ELSE MonthDayOf(n - DaysInMonth(m, y), m + 1, y)

RECURSIVE DateOf(_, _)
DateOf(n, y) ==
    IF n < DaysInYear(y) THEN MonthDayOf(n, 1, y)
    ELSE DateOf(n - DaysInYear(y), y + 1)

\* strftime('%m/%d/%Y') of a date
Strftime(n) == DateOf(n, 2023)

\* whether strptime accepts the string under '%m/%d/%Y'
Parsable(s) ==
    /\ s[3] >= 2023
    /\ s[1] \in 1..12
    /\ s[2] >= 1
    /\ s[2] <= DaysInMonth(s[1], s[3])

\* a lenient parser: 02/30 rolls over into March
ToDatetimeLenient(s) == ToOrdinal(s)

\* pd.to_datetime(value, format='%m/%d/%Y', errors='coerce') of one value
ToDatetime(s) == IF Parsable(s) THEN ToOrdinal(s) ELSE NaT

(***************************************************************************)
(* What historical_data can hand back (line 49): it raises, or returns     *)
(* None, a list, or a dict from field names to lists of values.  A cell    *)
(* of a column other than "date" holds the number of its row in the        *)
(* provider's payload, so that a row can be followed through the pipeline. *)
(***************************************************************************)
NoDict == [k \in {} |-> <<>>]

Raises == [type |-> "raise", len |-> 0, val |-> NoDict]
NoneValue == [type |-> "NoneType", len |-> 0, val |-> NoDict]
ListValue(n) == [type |-> "list", len |-> n, val |-> NoDict]
DictValue(d) == [type |-> "dict", len |-> Cardinality(DOMAIN d), val |-> d]

ProviderFields == {"date", "open", "high", "low", "close", "volume"}

FieldSets ==
    { ProviderFields,
      ProviderFields \ {"volume"},
      ProviderFields \cup {"adj_close"},
      ProviderFields \ {"date"},
      {} }

DateStrings == { <<3, 1, 2024>>, <<2, 23, 2024>>, <<2, 20, 2024>>, <<2, 30, 2024>> }

DateColumns == UNION { [1..n -> DateStrings] : n \in 0..MaxRows }

MkDict(K, ds, n) ==
    [k \in K |-> IF k = "date" THEN ds ELSE [i \in 1..n |-> i]]

Dicts == { MkDict(K, ds, n) : K \in FieldSets, ds \in DateColumns, n \in 0..MaxRows }

Responses ==
    {Raises, NoneValue, ListValue(0), ListValue(1)} \cup { DictValue(d) : d \in Dicts }

\* one response or more for each way an iteration can end
SomeResponses ==
    { Raises, NoneValue, ListValue(0), ListValue(1),
      DictValue(NoDict),
      DictValue(MkDict(ProviderFields, <<>>, 0)),
      DictValue(MkDict(ProviderFields, << <<3, 1, 2024>> >>, 0)),
      DictValue(MkDict(ProviderFields \ {"date"}, <<>>, 1)),
      DictValue(MkDict(ProviderFields, << <<2, 30, 2024>> >>, 1)),
      DictValue(MkDict(ProviderFields, << <<3, 1, 2024>> >>, 1)),
      DictValue(MkDict(ProviderFields, << <<2, 20, 2024>> >>, 1)),
      DictValue(MkDict(ProviderFields \ {"volume"}, << <<3, 1, 2024>> >>, 1)),
      DictValue(MkDict(ProviderFields \cup {"adj_close"}, << <<3, 1, 2024>> >>, 1)) }

(***************************************************************************)
(* pandas.  A DataFrame is its set of column labels and its rows in        *)
(* order, each row with its index label and its cells.                     *)
(***************************************************************************)
NoFrame == [columns |-> {}, rows |-> <<>>]

\* a test for None alone
IsNotNone(x) == x.type # "NoneType"

\* bool(data), line 56
Truthy(x) ==
    CASE x.type = "NoneType" -> FALSE
      [] x.type = "list" -> x.len > 0
      [] x.type = "dict" -> DOMAIN x.val # {}
      [] OTHER -> FALSE

\* a type check that lets everything through
IsAnything(x) == TRUE

\* isinstance(data, dict), line 65
IsDict(x) == x.type = "dict"

ColumnLengths(d) == { Len(d[k]) : k \in DOMAIN d }

\* pd.DataFrame(data) raises ValueError on columns of unequal length, line 74
DataFrameRaises(d) == Cardinality(ColumnLengths(d)) > 1

\* pd.DataFrame(data), line 74
DataFrame(d) ==
    LET n == IF DOMAIN d = {} THEN 0 ELSE CHOOSE x \in ColumnLengths(d) : TRUE
    IN  [columns |-> DOMAIN d,
         rows |-> [i \in 1..n |->
                     [label |-> i - 1, cells |-> [k \in DOMAIN d |-> d[k][i]]]]]

\* df.empty, lines 76 and 91
IsEmpty(df) == df.columns = {} \/ Len(df.rows) = 0

\* df['date'] raises KeyError when there is no such column, line 86
DateColumnRaises(df) == "date" \notin df.columns

\* df['date'] = pd.to_datetime(df['date'], format='%m/%d/%Y', errors='coerce'), line 86
ParseDates(df) ==
    [df EXCEPT !.rows =
        [i \in 1..Len(df.rows) |->
            [df.rows[i] EXCEPT !.cells =
                [df.rows[i].cells EXCEPT !["date"] = ToDatetime(@)]]]]

ValidDate(r) == r.cells["date"] # NaT

\* a dropna that drops nothing
DropNothing(df) == df

\* df.dropna(subset=['date']), line 89
DropNa(df) == [df EXCEPT !.rows = SelectSeq(df.rows, ValidDate)]

\* the columns= mapping of df.rename, lines 101-108
RenameColumn(k) ==
    CASE k = "date" -> "Date"
      [] k = "open" -> "Open"
      [] k = "high" -> "High"
      [] k = "low" -> "Low"
      [] k = "close" -> "Close"
      [] k = "volume" -> "Volume"
      [] OTHER -> k

\* df.rename(columns=...), lines 101-108
Rename(df) ==
    LET old(k2) == CHOOSE k \in df.columns : RenameColumn(k) = k2
        cols == { RenameColumn(k) : k \in df.columns }
    IN  [columns |-> cols,
         rows |-> [i \in 1..Len(df.rows) |->
                     [df.rows[i] EXCEPT !.cells =
                         [k2 \in cols |-> df.rows[i].cells[old(k2)]]]]]

\* df[name] = 0, lines 111-112
SetColumn(df, name) ==
    LET cols == df.columns \cup {name}
    IN  [columns |-> cols,
         rows |-> [i \in 1..Len(df.rows) |->
                     [df.rows[i] EXCEPT !.cells =
                         [k \in cols |-> IF k = name THEN 0 ELSE df.rows[i].cells[k]]]]]

AddCompatColumns(df) == SetColumn(SetColumn(df, "Dividends"), "Stock Splits")

RowOrders(n) ==
    { p \in [1..n -> 1..n] : \A i, j \in 1..n : p[i] = p[j] => i = j }

\* df.sort_values('Date'), line 115: the default sort is not stable, so rows
\* of equal Date come out in any order
SortValues(df) ==
    { [df EXCEPT !.rows = [i \in 1..Len(df.rows) |-> df.rows[p[i]]]] :
        p \in { q \in RowOrders(Len(df.rows)) :
                  \A i, j \in 1..Len(df.rows) :
                      i < j => df.rows[q[i]].cells["Date"] <= df.rows[q[j]].cells["Date"] } }

\* .reset_index(drop=True), line 115
ResetIndex(df) ==
    [df EXCEPT !.rows = [i \in 1..Len(df.rows) |-> [df.rows[i] EXCEPT !.label = i - 1]]]

\* df['Date'].max(), line 118
LatestDate(df) ==
    CHOOSE d \in { df.rows[i].cells["Date"] : i \in 1..Len(df.rows) } :
        \A i \in 1..Len(df.rows) : df.rows[i].cells["Date"] <= d

\* the frame the try block has built when it reaches line 89
Parsed(d) == DropNa(ParseDates(DataFrame(d)))

\* the frames line 126 can return for a response that passes every check
Frames(d) ==
    { ResetIndex(f) : f \in SortValues(AddCompatColumns(Rename(Parsed(d)))) }

\* which branch of the try block (lines 39-145) a response takes
Outcome(x) ==
    IF x.type = "raise" THEN "exception"
    ELSE IF ~Truthy(x) THEN "no_data"
    ELSE IF ~IsDict(x) THEN "invalid_type"
    ELSE IF DataFrameRaises(x.val) THEN "exception"
    ELSE IF IsEmpty(DataFrame(x.val)) THEN "empty_df"
    ELSE IF DateColumnRaises(DataFrame(x.val)) THEN "exception"
    ELSE IF IsEmpty(Parsed(x.val)) THEN "no_valid_dates"
    ELSE "success"

\* the frames the try block can have built for a response when it leaves
\* the iteration: none unless it reaches line 126
Built(x) == IF Outcome(x) = "success" THEN Frames(x.val) ELSE {NoFrame}

(***************************************************************************)
(* The log.  An entry is a streamlit call (op = "st": its severity and     *)
(* which message), a time.sleep or a historical_data call.  attempt is     *)
(* the loop variable when the entry is made (-1 outside the loop), shown   *)
(* is the attempt count the message text displays (0 when it displays      *)
(* none) and wait is wait_time.                                            *)
(***************************************************************************)
St(sev, msg, i, shown, w) ==
    [op |-> "st", sev |-> sev, msg |-> msg, attempt |-> i, shown |-> shown, wait |-> w]

SleepEntry(i, w) ==
    [op |-> "sleep", sev |-> "", msg |-> "", attempt |-> i, shown |-> 0, wait |-> w]

CallEntry(i) ==
    [op |-> "historical_data", sev |-> "", msg |-> "", attempt |-> i, shown |-> 0, wait |-> 0]

\* a backoff that doubles from one time unit
WaitTimeFromOne(i) == 2 ^ (i - 1)

\* wait_time = 2 ** attempt, line 41
WaitTime(i) == 2 ^ i

\* a last-attempt test that is off by one
IsLastAttemptOffByOne(i, n) == i = n

\* attempt == max_retries - 1, lines 58, 67, 78, 93, 131
IsLastAttempt(i, n) == i = n - 1

\* every failure shown as an error, whichever the attempt
FailureEventsLoud(kind, i, n) == << St("error", kind, i, i + 1, 0) >>

\* lines 56-62, 65-70, 76-82, 91-97 and 128-144: what a failed attempt shows
FailureEvents(kind, i, n) ==
    IF ~IsLastAttempt(i, n) THEN << St("warning", kind, i, i + 1, 0) >>
    ELSE CASE kind = "no_data" ->
                << St("error", kind, i, i + 1, 0),
                   St("error", "possible_causes", i, 0, 0) >>
           [] kind = "invalid_type" ->
                << St("error", kind, i, i + 1, 0) >>
           [] kind = "empty_df" ->
                << St("error", kind, i, i + 1, 0),
                   St("error", "raw_data_keys", i, 0, 0) >>
           [] kind = "no_valid_dates" ->
                << St("error", kind, i, i + 1, 0),
                   St("error", "raw_dates_sample", i, 0, 0) >>
           [] kind = "exception" ->
                << St("error", kind, i, i + 1, 0),
                   St("error", "exception_type", i, 0, 0),
                   St("error", "full_traceback", i, 0, 0),
                   St("code", "traceback", i, 0, 0),
                   St("error", "troubleshooting_tips", i, 0, 0),
                   St("error", "tip_1", i, 0, 0),
                   St("error", "tip_2", i, 0, 0),
                   St("error", "tip_3", i, 0, 0),
                   St("error", "tip_4", i, 0, 0) >>

\* days_old = (datetime.now() - latest_date.to_pydatetime()).days, line 119
DaysOld(now, df) == now - LatestDate(df)

\* a threshold that takes seven days for outdated
IsOutdatedFromSeven(days_old) == days_old >= 7

\* days_old > 7, line 121
IsOutdated(days_old) == days_old > 7

\* lines 121-124
FreshnessEvents(i, days_old) ==
    IF IsOutdated(days_old) THEN << St("warning", "outdated", i, 0, 0) >>
    ELSE << St("success", "loaded", i, 0, 0) >>

\* lines 47-53: announce and issue the adapter call
CallEvents(i) == << St("info", "fetching", i, 0, 0), CallEntry(i) >>

\* lines 40-43: announce the retry and go to sleep
BackoffEvents(i, n) ==
    << St("info", "retry", i, i + 1, WaitTime(i)), SleepEntry(i, WaitTime(i)) >>

\* line 148
ExhaustedEvents(n) == << St("error", "failed_after", 0 - 1, n, 0) >>

\* a loop that tests its bound after the first iteration
HasIterationFirst(i, n) == i = 0 \/ i < n

\* a loop that runs once too often
HasIterationInclusive(i, n) == i <= n

\* the for loop at line 38 has an iteration for attempt i
HasIteration(i, n) == i < n

\* the value of a return statement and its line
Running == [kind |-> "running", line |-> 0, df |-> NoFrame]
ReturnNone(line) == [kind |-> "None", line |-> line, df |-> NoFrame]
ReturnFrame(df) == [kind |-> "DataFrame", line |-> 126, df |-> df]

(***************************************************************************)
(* The state machine.                                                      *)
(***************************************************************************)
StartDay == ToOrdinal(<<3, 1, 2024>>)

InitWith(active) ==
    /\ dep_ok \in BOOLEAN
    /\ today = StartDay
    /\ rollovers = 0
    /\ pc = [c \in Callers |-> IF c \in active THEN "start" ELSE "idle"]
    /\ max_retries \in [Callers -> RetryArgs]
    /\ \A c \in Callers \ active : max_retries[c] = 3
    /\ period_days \in [Callers -> PeriodArgs]
    /\ \A c \in Callers \ active : period_days[c] = 365
    /\ from_date = [c \in Callers |-> <<0, 0, 0>>]
    /\ to_date = [c \in Callers |-> <<0, 0, 0>>]
    /\ attempt = [c \in Callers |-> 0 - 1]
    /\ remaining = [c \in Callers |-> 0]
    /\ slept = [c \in Callers |-> 0]
    /\ data = [c \in Callers |-> NoneValue]
    /\ outcomes = [c \in Callers |-> <<>>]
    /\ ret = [c \in Callers |-> Running]
    /\ log = [c \in Callers |-> <<>>]
    /\ calls = [c \in Callers |-> <<>>]
    /\ cancel = [c \in Callers |-> FALSE]

Init == InitWith({"c1"})

InitPayload ==
    /\ InitWith({"c1"})
    /\ max_retries["c1"] \in {1, 2}
    /\ period_days["c1"] = 365

\* an import whose failure goes unnoticed
ImportNeverRaises == FALSE

\* lines 21-24: the import raises ImportError
ImportRaises == ~dep_ok

\* a date range computed anew for every adapter call
CallArgsNow(c) ==
    [investing_id |-> 995069,
     from_date |-> Strftime(today - period_days[c]),
     to_date |-> Strftime(today)]

\* lines 49-53: the arguments of the adapter call
CallArgs(c) ==
    [investing_id |-> 995069, from_date |-> from_date[c], to_date |-> to_date[c]]

\* lines 21-53: the import, the date range, and the first iteration up to
\* the adapter call; or the return at line 27; or, with an empty range,
\* the return at line 149
Begin(c) ==
    /\ pc[c] = "start"
    /\ UNCHANGED <<dep_ok, today, rollovers, max_retries, period_days,
                   remaining, slept, data, outcomes, cancel>>
    /\ IF ImportRaises
       THEN /\ log' = [log EXCEPT ![c] =
                         << St("error", "not_installed", 0 - 1, 0, 0),
                            St("error", "import_error_details", 0 - 1, 0, 0) >>]
            /\ ret' = [ret EXCEPT ![c] = ReturnNone(27)]
            /\ pc' = [pc EXCEPT ![c] = "done"]
            /\ UNCHANGED <<from_date, to_date, attempt, calls>>
       ELSE /\ from_date' = [from_date EXCEPT ![c] = Strftime(today - period_days[c])]
            /\ to_date' = [to_date EXCEPT ![c] = Strftime(today)]
            /\ IF HasIteration(0, max_retries[c])
               THEN /\ attempt' = [attempt EXCEPT ![c] = 0]
                    /\ log' = [log EXCEPT ![c] = CallEvents(0)]
                    /\ calls' = [calls EXCEPT ![c] = << CallArgs(c)' >>]
                    /\ pc' = [pc EXCEPT ![c] = "awaiting"]
                    /\ UNCHANGED ret
               ELSE /\ log' = [log EXCEPT ![c] = ExhaustedEvents(max_retries[c])]
                    /\ ret' = [ret EXCEPT ![c] = ReturnNone(149)]
                    /\ pc' = [pc EXCEPT ![c] = "done"]
                    /\ UNCHANGED <<attempt, calls>>

\* lines 131-142: the except block returns None on the last attempt
Return142(c, events) ==
    /\ log' = [log EXCEPT ![c] = @ \o events]
    /\ ret' = [ret EXCEPT ![c] = ReturnNone(142)]
    /\ pc' = [pc EXCEPT ![c] = "done"]
    /\ UNCHANGED <<attempt, remaining>>

\* continue (lines 63, 71, 83, 98, 145): the for loop at line 38 takes its
\* next iteration, up to time.sleep at line 43, or ends, and lines 148-149
\* return None
Continue(c, events) ==
    LET i == attempt[c]
        n == max_retries[c]
    IN  IF HasIteration(i + 1, n)
        THEN /\ attempt' = [attempt EXCEPT ![c] = i + 1]
             /\ log' = [log EXCEPT ![c] = @ \o events \o BackoffEvents(i + 1, n)]
             /\ remaining' = [remaining EXCEPT ![c] = WaitTime(i + 1)]
             /\ pc' = [pc EXCEPT ![c] = "sleeping"]
             /\ UNCHANGED ret
        ELSE /\ log' = [log EXCEPT ![c] = @ \o events \o ExhaustedEvents(n)]
             /\ ret' = [ret EXCEPT ![c] = ReturnNone(149)]
             /\ pc' = [pc EXCEPT ![c] = "done"]
             /\ UNCHANGED <<attempt, remaining>>

\* line 126 without its return: the loop goes on after a success
NoReturn126(c, f) == Continue(c, FreshnessEvents(attempt[c], DaysOld(today, f)))

\* line 126: return df, after the freshness message of lines 121-124
Return126(c, f) ==
    /\ log' = [log EXCEPT ![c] = @ \o FreshnessEvents(attempt[c], DaysOld(today, f))]
    /\ ret' = [ret EXCEPT ![c] = ReturnFrame(f)]
    /\ pc' = [pc EXCEPT ![c] = "done"]
    /\ UNCHANGED <<attempt, remaining>>

\* an except block that goes on to the next iteration on any attempt
ExceptNeverReturns(kind, i, n) == FALSE

\* an except block that returns None on any attempt
ExceptAlwaysReturns(kind, i, n) == kind = "exception"

\* lines 128-131: an exception on the last attempt takes the return at line 142
ExceptReturns(kind, i, n) == kind = "exception" /\ IsLastAttempt(i, n)

\* lines 49-149: historical_data returns x or raises; the rest of the try
\* block or the except block; then the return, or the next iteration up to
\* time.sleep.
AdapterReturns(c, x, f) ==
    /\ pc[c] = "awaiting"
    /\ data' = [data EXCEPT ![c] = x]
    /\ outcomes' = [outcomes EXCEPT ![c] = Append(@, Outcome(x))]
    /\ LET i == attempt[c]
           n == max_retries[c]
           kind == Outcome(x)
       IN  IF kind = "success"
           THEN f \in Frames(x.val) /\ Return126(c, f)
           ELSE /\ f = NoFrame
                /\ IF ExceptReturns(kind, i, n)
                   THEN Return142(c, FailureEvents(kind, i, n))
                   ELSE Continue(c, FailureEvents(kind, i, n))
    /\ UNCHANGED <<dep_ok, today, rollovers, max_retries, period_days,
                   from_date, to_date, slept, calls, cancel>>

\* one timer for every sleeping call
TickShared(c) ==
    /\ pc[c] = "sleeping"
    /\ remaining[c] > 0
    /\ remaining' = [d \in Callers |->
                        IF pc[d] = "sleeping" /\ remaining[d] > 0
                        THEN remaining[d] - 1 ELSE remaining[d]]
    /\ slept' = [d \in Callers |->
                    IF pc[d] = "sleeping" /\ remaining[d] > 0
                    THEN slept[d] + 1 ELSE slept[d]]
    /\ UNCHANGED <<dep_ok, today, rollovers, pc, max_retries, period_days, from_date,
                   to_date, attempt, data, outcomes, ret, log, calls, cancel>>

\* line 43: one time unit of time.sleep(wait_time) passes
Tick(c) ==
    /\ pc[c] = "sleeping"
    /\ remaining[c] > 0
    /\ remaining' = [remaining EXCEPT ![c] = @ - 1]
    /\ slept' = [slept EXCEPT ![c] = @ + 1]
    /\ UNCHANGED <<dep_ok, today, rollovers, pc, max_retries, period_days, from_date,
                   to_date, attempt, data, outcomes, ret, log, calls, cancel>>

\* time.sleep has slept its wait_time
SleepOver(c) == remaining[c] = 0

\* lines 43-53: time.sleep returns; announce and issue the adapter call.
\* No line reads the data of the iteration before (line 49 assigns it anew),
\* so the model forgets it here.
WakeUp(c) ==
    /\ pc[c] = "sleeping"
    /\ SleepOver(c)
    /\ data' = [data EXCEPT ![c] = NoneValue]
    /\ log' = [log EXCEPT ![c] = @ \o CallEvents(attempt[c])]
    /\ calls' = [calls EXCEPT ![c] = Append(@, CallArgs(c))]
    /\ pc' = [pc EXCEPT ![c] = "awaiting"]
    /\ UNCHANGED <<dep_ok, today, rollovers, max_retries, period_days, from_date,
                   to_date, attempt, remaining, slept, outcomes, ret, cancel>>

\* the caller raises a cancellation signal while the call sleeps at line 43;
\* the function takes no such signal (line 10) and time.sleep reads none
Cancel(c) ==
    /\ pc[c] = "sleeping"
    /\ ~cancel[c]
    /\ cancel' = [cancel EXCEPT ![c] = TRUE]
    /\ UNCHANGED <<dep_ok, today, rollovers, pc, max_retries, period_days, from_date,
                   to_date, attempt, remaining, slept, data, outcomes, ret, log, calls>>

\* midnight passes: datetime.now() (lines 30 and 119) moves to the next day
Midnight ==
    /\ rollovers < MaxRollovers
    /\ \E c \in Callers : pc[c] \notin {"idle", "done"}
    /\ rollovers' = rollovers + 1
    /\ today' = today + 1
    /\ UNCHANGED <<dep_ok, pc, max_retries, period_days, from_date, to_date,
                   attempt, remaining, slept, data, outcomes, ret, log, calls, cancel>>

Environment ==
    \/ \E c \in Callers : Begin(c)
    \/ \E c \in Callers : Tick(c)
    \/ \E c \in Callers : WakeUp(c)
    \/ \E c \in Callers : Cancel(c)
    \/ Midnight

\* the retry loop against a provider that answers in every way once
Next ==
    \/ Environment
    \/ \E c \in Callers : \E x \in SomeResponses :
          \E f \in Built(x) : AdapterReturns(c, x, f)

Spec == Init /\ [][Next]_vars

\* one or two attempts against a provider that answers with any payload
NextPayload ==
    \/ Environment
    \/ \E c \in Callers : \E x \in Responses :
          \E f \in Built(x) : AdapterReturns(c, x, f)

SpecPayload == InitPayload /\ [][NextPayload]_vars

(***************************************************************************)
(* Reading a call's log.                                                   *)
(***************************************************************************)
Positions(c, op) == { p \in DOMAIN log[c] : log[c][p].op = op }

NumCalls(c) == Cardinality(Positions(c, "historical_data"))

NumSleeps(c) == Cardinality(Positions(c, "sleep"))

RECURSIVE SumWaits(_)
SumWaits(entries) ==
    IF entries = <<>> THEN 0
    ELSE (IF Head(entries).op = "sleep" THEN Head(entries).wait ELSE 0)
         + SumWaits(Tail(entries))

Finished(c) == pc[c] = "done"

Failed(c) == Finished(c) /\ ret[c].kind = "None"

Succeeded(c) == Finished(c) /\ ret[c].kind = "DataFrame"

FailureKinds == {"no_data", "invalid_type", "empty_df", "no_valid_dates", "exception"}

\* the entries that say how attempt i failed
FailureReports(c, i) ==
    { p \in DOMAIN log[c] :
        /\ log[c][p].op = "st"
        /\ log[c][p].attempt = i
        /\ log[c][p].msg \in FailureKinds }

\* the error messages that display an attempt count
CountedErrors(c) ==
    { p \in DOMAIN log[c] :
        log[c][p].op = "st" /\ log[c][p].sev = "error" /\ log[c][p].shown # 0 }

LastOf(S) == CHOOSE p \in S : \A q \in S : q <= p

\* the call ended for want of attempts: None from line 142 or line 149
ExhaustedRetries(c) == Failed(c) /\ ret[c].line \in {142, 149}

\* the call ended at line 27
MissingDependency(c) == Failed(c) /\ ret[c].line = 27

\* the attempt count the last error message of a failed call displays
ReportedAttempts(c) == log[c][LastOf(CountedErrors(c))].shown

(***************************************************************************)
(* C1. Retry bound: with max_retries = N >= 1 and the library present, a   *)
(* call invokes historical_data at most N times; a call that returns None  *)
(* has invoked it exactly N times, every one of its N attempts has failed, *)
(* and its last error message displays the attempt count N.                *)
(***************************************************************************)
C1_RetryBound ==
    \A c \in Callers :
        (dep_ok /\ max_retries[c] >= 1) =>
            /\ NumCalls(c) <= max_retries[c]
            /\ Len(calls[c]) = NumCalls(c)
            /\ Failed(c) =>
                  /\ ExhaustedRetries(c)
                  /\ NumCalls(c) = max_retries[c]
                  /\ Len(outcomes[c]) = max_retries[c]
                  /\ \A k \in DOMAIN outcomes[c] : outcomes[c][k] \in FailureKinds
                  /\ CountedErrors(c) # {}
                  /\ ReportedAttempts(c) = max_retries[c]

\* three attempts, all failed, the last by an exception (return at line 142)
C1_Witness ==
    /\ dep_ok
    /\ max_retries["c1"] = 3
    /\ Failed("c1")
    /\ NumCalls("c1") = 3
    /\ outcomes["c1"] = <<"no_data", "empty_df", "exception">>

(***************************************************************************)
(* C2. Success short-circuits: a call whose attempt k is the first to      *)
(* succeed returns a frame built from the response to that attempt, after  *)
(* exactly k+1 invocations and k sleeps; its log ends with the invocation  *)
(* of attempt k followed by the freshness message, so nothing is invoked   *)
(* and nothing is slept after the successful attempt.                      *)
(***************************************************************************)
C2_SuccessShortCircuits ==
    \A c \in Callers :
        (Succeeded(c) \/ \E j \in DOMAIN outcomes[c] : outcomes[c][j] = "success") =>
            LET k == attempt[c]
                n == Len(log[c])
            IN  /\ Succeeded(c)
                /\ k >= 0 /\ k < max_retries[c]
                /\ Len(outcomes[c]) = k + 1
                /\ outcomes[c][k + 1] = "success"
                /\ \A j \in 1..k : outcomes[c][j] \in FailureKinds
                /\ NumCalls(c) = k + 1
                /\ Len(calls[c]) = k + 1
                /\ NumSleeps(c) = k
                /\ n >= 2
                /\ log[c][n - 1] = CallEntry(k)
                /\ log[c][n].op = "st"
                /\ log[c][n].msg \in {"loaded", "outdated"}
                /\ Outcome(data[c]) = "success"
                /\ ret[c].df \in Frames(data[c].val)

\* two failures, then success on the third attempt of three
C2_Witness ==
    /\ Succeeded("c1")
    /\ max_retries["c1"] = 3
    /\ attempt["c1"] = 2
    /\ NumCalls("c1") = 3
    /\ SumWaits(log["c1"]) = 6

(***************************************************************************)
(* C3. Backoff schedule: nothing is slept before attempt 0; the            *)
(* invocation of every attempt i >= 1 comes right after one sleep of 2^i   *)
(* time units, announced after the failure report of attempt i-1, and      *)
(* that sleep is the only one of attempt i; the time actually slept is     *)
(* the sum of the waits asked for, less what remains of a sleep under      *)
(* way; a call at or past the invocation of attempt k has slept            *)
(* 2 + 4 + ... + 2^k = 2^(k+1) - 2 time units.                             *)
(***************************************************************************)
C3_BackoffSchedule ==
    \A c \in Callers :
        /\ \A p \in Positions(c, "historical_data") :
              LET i == log[c][p].attempt
              IN  IF i = 0
                  THEN \A q \in Positions(c, "sleep") : q > p
                  ELSE /\ p >= 5
                       /\ log[c][p - 1] = St("info", "fetching", i, 0, 0)
                       /\ log[c][p - 2] = SleepEntry(i, 2 ^ i)
                       /\ log[c][p - 3] = St("info", "retry", i, i + 1, 2 ^ i)
                       /\ log[c][p - 4].op = "st"
                       /\ log[c][p - 4].attempt = i - 1
                       /\ log[c][p - 4].sev = "warning"
                       /\ FailureReports(c, i - 1) # {}
                       /\ \A q \in FailureReports(c, i - 1) : q < p - 2
        /\ \A p, q \in Positions(c, "sleep") :
              log[c][p].attempt = log[c][q].attempt => p = q
        /\ \A p \in Positions(c, "sleep") :
              log[c][p].attempt >= 1 /\ log[c][p].wait = 2 ^ log[c][p].attempt
        /\ slept[c] + (IF pc[c] = "sleeping" THEN remaining[c] ELSE 0) = SumWaits(log[c])
        /\ remaining[c] >= 0
        /\ (pc[c] \in {"awaiting", "done"} /\ attempt[c] >= 0) =>
              slept[c] = 2 ^ (attempt[c] + 1) - 2

\* the invocation of attempt 2 is under way after sleeps of 2 and 4
C3_Witness ==
    /\ pc["c1"] = "awaiting"
    /\ attempt["c1"] = 2
    /\ slept["c1"] = 6
    /\ NumSleeps("c1") = 2

(***************************************************************************)
(* C4. Cancellation: once the caller has raised its cancellation signal    *)
(* during a backoff sleep, the call invokes the adapter no more and ends   *)
(* with a Cancelled outcome.                                               *)
(***************************************************************************)
C4_CancellationAborts ==
    \A c \in Callers :
        cancel[c] =>
            /\ pc[c] \in {"sleeping", "done"}
            /\ Finished(c) => ret[c].kind = "Cancelled"

(***************************************************************************)
(* C5. Missing dependency: when the import fails, the call ends at once    *)
(* at line 27 with None, whatever max_retries is: no iteration of the      *)
(* loop, no adapter invocation, no sleep, and only the two messages of     *)
(* lines 25-26 in its log.                                                 *)
(***************************************************************************)
C5_MissingDependency ==
    \A c \in Callers :
        (~dep_ok /\ pc[c] \notin {"idle", "start"}) =>
            /\ MissingDependency(c)
            /\ ret[c] = ReturnNone(27)
            /\ attempt[c] = 0 - 1
            /\ outcomes[c] = <<>>
            /\ calls[c] = <<>>
            /\ NumCalls(c) = 0
            /\ NumSleeps(c) = 0
            /\ slept[c] = 0
            /\ Len(log[c]) = 2
            /\ \A p \in DOMAIN log[c] : log[c][p].op = "st" /\ log[c][p].sev = "error"

\* the import fails in a call that asked for three attempts
C5_Witness ==
    /\ ~dep_ok
    /\ max_retries["c1"] = 3
    /\ MissingDependency("c1")

\* a failed attempt before the last leaves the call running, in the next
\* iteration
RetriedWhenNotLast(c) ==
    \A k \in DOMAIN outcomes[c] :
        (outcomes[c][k] \in FailureKinds /\ k - 1 < max_retries[c] - 1) =>
            /\ attempt[c] >= k
            /\ Finished(c) => Len(outcomes[c]) > k
            /\ \E p \in FailureReports(c, k - 1) :
                  /\ log[c][p] = St("warning", outcomes[c][k], k - 1, k, 0)
                  /\ p + 2 <= Len(log[c])
                  /\ log[c][p + 1] = St("info", "retry", k, k + 1, 2 ^ k)
                  /\ log[c][p + 2] = SleepEntry(k, 2 ^ k)

\* the attempt of index max_retries - 1 has been made and has failed
LastAttemptFailed(c) ==
    /\ max_retries[c] >= 1
    /\ Len(outcomes[c]) = max_retries[c]
    /\ outcomes[c][max_retries[c]] \in FailureKinds

(***************************************************************************)
(* C6 as stated.  Uniform retry: a failed attempt of index i below         *)
(* max_retries - 1, whatever its kind, does not end the call, which goes   *)
(* on to attempt i+1; a call ends with None only when the attempt of       *)
(* index max_retries - 1 has failed or the dependency is missing.          *)
(***************************************************************************)
C6_UniformRetryAsStated ==
    \A c \in Callers :
        /\ RetriedWhenNotLast(c)
        /\ Failed(c) => (MissingDependency(c) \/ LastAttemptFailed(c))

(***************************************************************************)
(* C6 amended.  Uniform retry: a failed attempt of index i below           *)
(* max_retries - 1, whatever its kind, does not end the call, which goes   *)
(* on to attempt i+1; a call ends with None only when the attempt of       *)
(* index max_retries - 1 has failed, or the dependency is missing, or      *)
(* max_retries <= 0 (the loop has no iteration).                           *)
(***************************************************************************)
C6_UniformRetry ==
    \A c \in Callers :
        /\ RetriedWhenNotLast(c)
        /\ Failed(c) =>
              \/ MissingDependency(c)
              \/ LastAttemptFailed(c)
              \/ (max_retries[c] <= 0 /\ outcomes[c] = <<>> /\ ret[c].line = 149)

\* unparsable dates, then an exception, both retried; the third attempt fails
C6_Witness ==
    /\ max_retries["c1"] = 3
    /\ Failed("c1")
    /\ outcomes["c1"] = <<"no_valid_dates", "exception", "invalid_type">>

(***************************************************************************)
(* C7. Terminal failure detail: a call that ends because its last allowed  *)
(* attempt failed returns None from line 142 or 149, and its log holds     *)
(* exactly one report of that attempt, at error severity, naming the way   *)
(* the attempt failed and displaying the attempt count max_retries, which  *)
(* is also the count its last counted error message displays.              *)
(***************************************************************************)
C7_TerminalFailureDetail ==
    \A c \in Callers :
        (Failed(c) /\ LastAttemptFailed(c)) =>
            LET n == max_retries[c]
            IN  /\ ExhaustedRetries(c)
                /\ ret[c].df = NoFrame
                /\ Cardinality(FailureReports(c, n - 1)) = 1
                /\ \A p \in FailureReports(c, n - 1) :
                      log[c][p] = St("error", outcomes[c][n], n - 1, n, 0)
                /\ ReportedAttempts(c) = n
                /\ (ret[c].line = 142) <=> (outcomes[c][n] = "exception")

\* the last of two attempts finds an empty table
C7_Witness ==
    /\ max_retries["c1"] = 2
    /\ Failed("c1")
    /\ outcomes["c1"] = <<"exception", "empty_df">>
    /\ ret["c1"].line = 149

\* the Date cells of a frame, in row order
Dates(df) == [i \in 1..Len(df.rows) |-> df.rows[i].cells["Date"]]

NoNullDate(df) == \A i \in 1..Len(df.rows) : df.rows[i].cells["Date"] # NaT

StrictlyAscending(seq) == \A i, j \in 1..Len(seq) : i < j => seq[i] < seq[j]

\* the dict has a "date" column and every date in it is well-formed
WellFormedDates(x) ==
    /\ x.type = "dict"
    /\ "date" \in DOMAIN x.val
    /\ \A i \in 1..Len(x.val["date"]) : Parsable(x.val["date"][i])

(***************************************************************************)
(* C8. No partial result: a call returns None and no frame, or a frame     *)
(* of at least one row, none with a null Date, built from the response     *)
(* of its last attempt, and that response has passed every check of the    *)
(* try block.                                                              *)
(***************************************************************************)
C8_NoPartialResult ==
    \A c \in Callers :
        /\ ret[c].kind \in {"running", "None", "DataFrame"}
        /\ ret[c].kind # "DataFrame" => ret[c].df = NoFrame
        /\ ret[c].kind = "DataFrame" =>
              /\ Finished(c)
              /\ Len(ret[c].df.rows) >= 1
              /\ "Date" \in ret[c].df.columns
              /\ NoNullDate(ret[c].df)
              /\ outcomes[c] # <<>>
              /\ outcomes[c][Len(outcomes[c])] = "success"
              /\ Truthy(data[c])
              /\ IsDict(data[c])
              /\ ~DataFrameRaises(data[c].val)
              /\ ~IsEmpty(DataFrame(data[c].val))
              /\ ~DateColumnRaises(DataFrame(data[c].val))
              /\ ret[c].df \in Frames(data[c].val)
              /\ Len(ret[c].df.rows) =
                    Cardinality({ i \in 1..Len(data[c].val["date"]) :
                                    Parsable(data[c].val["date"][i]) })

\* a payload of one good and one bad date, after a failed first attempt
C8_Witness ==
    /\ Succeeded("c1")
    /\ Len(outcomes["c1"]) = 2
    /\ Len(data["c1"].val["date"]) = 2
    /\ Len(ret["c1"].df.rows) = 1

(***************************************************************************)
(* C9. Series invariant: every frame returned for a payload whose dates    *)
(* are all well-formed has its rows in strictly ascending order of Date    *)
(* (so no two rows share a Date) and no row with a null Date.              *)
(***************************************************************************)
C9_SeriesInvariant ==
    \A c \in Callers :
        (Succeeded(c) /\ WellFormedDates(data[c])) =>
            /\ NoNullDate(ret[c].df)
            /\ StrictlyAscending(Dates(ret[c].df))

CanonicalColumns ==
    {"Date", "Open", "High", "Low", "Close", "Volume", "Dividends", "Stock Splits"}

(***************************************************************************)
(* C10. Canonical schema: every frame returned has exactly the canonical   *)
(* columns, with Dividends = 0 and Stock Splits = 0 in every row.          *)
(***************************************************************************)
C10_CanonicalSchema ==
    \A c \in Callers :
        Succeeded(c) =>
            /\ ret[c].df.columns = CanonicalColumns
            /\ \A i \in 1..Len(ret[c].df.rows) :
                  /\ ret[c].df.rows[i].cells["Dividends"] = 0
                  /\ ret[c].df.rows[i].cells["Stock Splits"] = 0

\* the iteration that has just ended: the call sleeps before the next one
\* or has returned, and data still holds the adapter's answer
AttemptOver(c) == pc[c] \in {"sleeping", "done"} /\ outcomes[c] # <<>>

LastOutcome(c) == outcomes[c][Len(outcomes[c])]

\* the outcome of the data model for each way an iteration ends
AttemptOutcome(kind) ==
    CASE kind = "success" -> "Success"
      [] kind = "no_data" -> "TransientError"
      [] kind = "exception" -> "TransientError"
      [] kind = "invalid_type" -> "InvalidShape"
      [] kind = "empty_df" -> "Empty"
      [] kind = "no_valid_dates" -> "NoValidDates"

(***************************************************************************)
(* C11. Shape rejection: an attempt whose response is None or is not a     *)
(* dict ends as InvalidShape or TransientError, and the call returns no    *)
(* frame from it; every frame returned comes from a dict.                  *)
(***************************************************************************)
C11_ShapeRejection ==
    \A c \in Callers :
        /\ (AttemptOver(c) /\ data[c].type \in {"NoneType", "list"}) =>
              /\ AttemptOutcome(LastOutcome(c)) \in {"InvalidShape", "TransientError"}
              /\ LastOutcome(c) \in {"no_data", "invalid_type"}
              /\ ret[c].kind # "DataFrame"
        /\ ret[c].kind = "DataFrame" => data[c].type = "dict"

\* a non-empty list is refused on the first of two attempts
C11_Witness ==
    /\ pc["c1"] = "sleeping"
    /\ data["c1"] = ListValue(1)
    /\ outcomes["c1"] = <<"invalid_type">>

\* the response is a dict that pd.DataFrame turns into a table with a
\* "date" column
HasDateTable(x) ==
    /\ x.type = "dict"
    /\ ~DataFrameRaises(x.val)
    /\ "date" \in DOMAIN x.val

\* the rows of the payload whose date is well-formed
GoodRows(x) == { i \in 1..Len(x.val["date"]) : Parsable(x.val["date"][i]) }

PassesChecks(x) == HasDateTable(x) /\ GoodRows(x) # {}

\* the age in days, at the return, of the latest well-formed date of the payload
Age(c) ==
    LET ds == { ToOrdinal(data[c].val["date"][i]) : i \in GoodRows(data[c]) }
    IN  today - (CHOOSE d \in ds : \A e \in ds : e <= d)

\* the last message of the call is the warning of line 122
FlaggedStale(c) == log[c][Len(log[c])] = St("warning", "outdated", attempt[c], 0, 0)

\* the last message of the call is the success message of line 124
FlaggedFresh(c) == log[c][Len(log[c])] = St("success", "loaded", attempt[c], 0, 0)

(***************************************************************************)
(* C13. Staleness: an attempt whose response passes the four checks        *)
(* returns its frame whatever the age of its latest date; the call then    *)
(* ends with the outdated warning exactly when that age is above 7 days    *)
(* and with the success message otherwise: 10 days is stale, and 0, 1 and  *)
(* exactly 7 days are not.                                                 *)
(***************************************************************************)
C13_Staleness ==
    \A c \in Callers :
        /\ (AttemptOver(c) /\ PassesChecks(data[c])) => Succeeded(c)
        /\ Succeeded(c) =>
              /\ PassesChecks(data[c])
              /\ FlaggedStale(c) <=> Age(c) > 7
              /\ FlaggedFresh(c) <=> ~FlaggedStale(c)
              /\ Age(c) = 10 => FlaggedStale(c)
              /\ Age(c) \in {0, 1, 7} => FlaggedFresh(c)

\* the latest date is exactly seven days old and the frame is not flagged
C13_Witness ==
    /\ Succeeded("c1")
    /\ Age("c1") = 7
    /\ FlaggedFresh("c1")

\* the latest date is ten days old and the frame is returned, flagged
C13_WitnessStale ==
    /\ Succeeded("c1")
    /\ Age("c1") = 10
    /\ FlaggedStale("c1")
    /\ Len(ret["c1"].df.rows) >= 1

\* the table of the dict has no row
ZeroRows(x) == DOMAIN x.val = {} \/ \A k \in DOMAIN x.val : Len(x.val[k]) = 0

\* the conversion of the dict raises: columns of unequal length (line 74)
\* or no "date" column in a table that is not empty (line 86)
ConversionRaises(x) ==
    /\ x.type = "dict"
    /\ \/ DataFrameRaises(x.val)
       \/ (~ZeroRows(x) /\ "date" \notin DOMAIN x.val)

\* the outcome the gates name, in the order (1) fault or None,
\* (2) not a dict, (3) zero rows, (4) no parsable date
GateOutcomeAsStated(x) ==
    IF x.type \in {"raise", "NoneType"} THEN "TransientError"
    ELSE IF x.type # "dict" THEN "InvalidShape"
    ELSE IF ZeroRows(x) THEN "Empty"
    ELSE IF GoodRows(x) = {} THEN "NoValidDates"
    ELSE "Success"

\* a response that bool() takes for false: None, an empty list, an empty dict
Falsy(x) ==
    \/ x.type = "NoneType"
    \/ (x.type = "list" /\ x.len = 0)
    \/ (x.type = "dict" /\ DOMAIN x.val = {})

\* the outcome with gate (1) taking every falsy payload
GateOutcome(x) ==
    IF x.type = "raise" \/ Falsy(x) THEN "TransientError"
    ELSE IF x.type # "dict" THEN "InvalidShape"
    ELSE IF ZeroRows(x) THEN "Empty"
    ELSE IF GoodRows(x) = {} THEN "NoValidDates"
    ELSE "Success"

C14_WitnessEmptyDict ==
    /\ AttemptOver("c1")
    /\ data["c1"] = DictValue(NoDict)
    /\ LastOutcome("c1") = "no_data"

\* what attempt i of caller c showed, the progress notes left out
Shown(c, i) ==
    { k \in 1..Len(log[c]) :
        /\ log[c][k].op = "st"
        /\ log[c][k].attempt = i
        /\ log[c][k].sev # "info" }

\* the diagnostic detail of lines 59, 79, 94 and 134-141
Diagnostics ==
    { "possible_causes", "raw_data_keys", "raw_dates_sample", "exception_type",
      "full_traceback", "traceback", "troubleshooting_tips",
      "tip_1", "tip_2", "tip_3", "tip_4" }

PairRetryArgs == {1, 2}

\* a fault, an absent payload, and a table of one good row
PairResponses ==
    { Raises, NoneValue, DictValue(MkDict(ProviderFields, << <<3, 1, 2024>> >>, 1)) }

InitPair ==
    /\ InitWith(Callers)
    /\ dep_ok
    /\ \A c \in Callers : max_retries[c] \in PairRetryArgs /\ period_days[c] = 365

NextPair ==
    \/ Environment
    \/ \E c \in Callers : \E x \in PairResponses :
          \E f \in Built(x) : AdapterReturns(c, x, f)

SpecPair == InitPair /\ [][NextPair]_vars

\* the locals of one call, with what it has shown and asked
Locals(c) ==
    << pc[c], max_retries[c], period_days[c], from_date[c], to_date[c], attempt[c],
       remaining[c], slept[c], data[c], outcomes[c], ret[c], log[c], calls[c] >>

\* the log entries of attempt i of caller c that report how it ended
Ended(c, i) ==
    { k \in 1..Len(log[c]) :
        /\ log[c][k].op = "st"
        /\ log[c][k].attempt = i
        /\ log[c][k].sev \in {"warning", "error", "success"} }

\* each call has its own attempt index, its own invocations and its own
\* backoff, and its attempts follow one another
OwnAttempts(c) ==
    /\ Len(calls[c]) <= max_retries[c]
    /\ NumCalls(c) = Len(calls[c])
    /\ pc[c] = "awaiting" =>
          Len(calls[c]) = attempt[c] + 1 /\ Len(outcomes[c]) = attempt[c]
    /\ pc[c] = "sleeping" =>
          /\ Len(calls[c]) = attempt[c] /\ Len(outcomes[c]) = attempt[c]
          /\ remaining[c] <= WaitTime(attempt[c])
    /\ pc[c] = "done" => Len(outcomes[c]) = Len(calls[c])
    /\ \A k \in Positions(c, "historical_data") :
          LET i == log[c][k].attempt
          IN  i > 0 => \E j \in Ended(c, i - 1) : j < k

\* the result of a call is read off the responses to its own invocations
OwnResult(c) ==
    Finished(c) =>
        /\ Succeeded(c) <=> LastOutcome(c) = "success"
        /\ Succeeded(c) => ret[c].df \in Frames(data[c].val)
        /\ Failed(c) <=>
              /\ Len(outcomes[c]) = max_retries[c]
              /\ \A j \in 1..Len(outcomes[c]) : outcomes[c][j] \in FailureKinds

\* a step that changes the locals of one call changes those of no other
OneCallSteps ==
    \A c \in Callers : \A d \in Callers \ {c} :
        Locals(c)' # Locals(c) => Locals(d)' = Locals(d)

(***************************************************************************)
(* C16.  Independent concurrent calls: with two callers running the        *)
(* function at once, under every interleaving each call keeps its own      *)
(* attempt index and backoff, makes its own adapter calls (max_retries at  *)
(* most), and returns what the responses to its own calls determine; no    *)
(* step of one call changes anything of the other; and within one call     *)
(* attempt i + 1 is issued only after attempt i has shown its outcome.     *)
(***************************************************************************)
C16_IndependentCalls ==
    /\ [](\A c \in Callers : OwnAttempts(c) /\ OwnResult(c))
    /\ [][OneCallSteps]_vars

\* one call has its series from its second attempt while the other sleeps
\* half way through its backoff
C16_Witness ==
    /\ Succeeded("c1")
    /\ outcomes["c1"] = << "exception", "success" >>
    /\ pc["c2"] = "sleeping"
    /\ outcomes["c2"] = << "no_data" >>
    /\ remaining["c2"] = 1
    /\ slept["c2"] = 1

\* every adapter call of c so far has passed the range the call planned
SameRange(c) ==
    \A j \in 1..Len(calls[c]) :
        /\ calls[c][j].from_date = from_date[c]
        /\ calls[c][j].to_date = to_date[c]
        /\ calls[c][j] = calls[c][1]

\* the planned range ends on a calendar day and is period_days long
RangeLength(c) ==
    calls[c] # <<>> =>
        /\ Parsable(to_date[c]) /\ Parsable(from_date[c])
        /\ ToOrdinal(to_date[c]) - ToOrdinal(from_date[c]) = period_days[c]

\* the step that enters the function plans the range from that day's date
PlannedAtCall(c) ==
    (pc[c] = "start" /\ pc'[c] # "start" /\ dep_ok) =>
        /\ ToOrdinal(to_date'[c]) = today
        /\ ToOrdinal(from_date'[c]) = today - period_days[c]

\* no later step, a midnight included, changes the range
RangeKept(c) ==
    pc[c] # "start" => from_date'[c] = from_date[c] /\ to_date'[c] = to_date[c]

(***************************************************************************)
(* C17.  Fixed date range: the range is planned once per call, before the  *)
(* first attempt, as end_date = the date at call time and start_date =     *)
(* end_date - period_days; every adapter call of that call, on every       *)
(* retry, passes the same (from_date, to_date), which no attempt, no       *)
(* backoff wait and no change of day alters.                               *)
(***************************************************************************)
C17_FixedDateRange ==
    /\ [](\A c \in Callers : SameRange(c) /\ RangeLength(c))
    /\ [][\A c \in Callers : PlannedAtCall(c) /\ RangeKept(c)]_vars

\* three adapter calls for 03/02/2023 to 03/01/2024, the last of them
\* issued on 03/02/2024
C17_Witness ==
    /\ Len(calls["c1"]) = 3
    /\ today = StartDay + 1
    /\ period_days["c1"] = 365
    /\ \A j \in 1..3 :
          /\ calls["c1"][j].from_date = <<3, 2, 2023>>
          /\ calls["c1"][j].to_date = <<3, 1, 2024>>

\* the attempt that has just ended met a fault: the adapter raised, or the
\* conversion of the dict it returned did
AdapterFault(c) == AttemptOver(c) /\ data[c].type = "raise"

ConversionFault(c) == AttemptOver(c) /\ ConversionRaises(data[c])

\* how the except block of lines 128-145 leaves attempt i of n
HandledByExcept(c) ==
    LET i == Len(outcomes[c]) - 1
        n == max_retries[c]
    IN  /\ LastOutcome(c) = "exception"
        /\ i < n - 1 =>
              /\ pc[c] = "sleeping"
              /\ ret[c] = Running
              /\ attempt[c] = i + 1
              /\ \E k \in Shown(c, i) :
                    /\ Shown(c, i) = {k}
                    /\ log[c][k] = St("warning", "exception", i, i + 1, 0)
        /\ i >= n - 1 =>
              /\ Failed(c)
              /\ ret[c] = ReturnNone(142)
              /\ Len(outcomes[c]) = n
              /\ \E k \in Shown(c, i) : log[c][k].msg = "traceback"

(***************************************************************************)
(* C18.  Faults inside the conversion are contained: a fault raised after  *)
(* the adapter has returned a dict (no date column, or columns that make   *)
(* no table) is a failed attempt handled as an adapter fault is: retried   *)
(* when the attempt is not the last, the end of the call with None when    *)
(* it is; and a call never ends otherwise than by returning None or a      *)
(* DataFrame.                                                              *)
(***************************************************************************)
C18_FaultsContained ==
    \A c \in Callers :
        /\ (AdapterFault(c) \/ ConversionFault(c)) => HandledByExcept(c)
        /\ ret[c].kind \in {"running", "None", "DataFrame"}
        /\ Finished(c) <=> ret[c].kind # "running"

\* a dict with no date column on the second and last attempt
C18_Witness ==
    /\ ConversionFault("c1")
    /\ "date" \notin DOMAIN data["c1"].val
    /\ max_retries["c1"] = 2
    /\ Len(outcomes["c1"]) = 2
    /\ ret["c1"] = ReturnNone(142)

\* columns of unequal length on the first of two attempts: retried
C18_WitnessRetried ==
    /\ ConversionFault("c1")
    /\ DataFrameRaises(data["c1"].val)
    /\ max_retries["c1"] = 2
    /\ Len(outcomes["c1"]) = 1
    /\ pc["c1"] = "sleeping"

(***************************************************************************)
(* C19.  Zero retry budget: with max_retries <= 0 and the import working,  *)
(* the call makes no attempt, no adapter call and no backoff wait, and     *)
(* ends with None and the "failed after" error; it never returns a         *)
(* DataFrame.                                                              *)
(***************************************************************************)
C19_ZeroRetryBudget ==
    \A c \in Callers :
        (max_retries[c] <= 0 /\ dep_ok /\ pc[c] \notin {"idle", "start"}) =>
            /\ Failed(c)
            /\ ret[c] = ReturnNone(149)
            /\ log[c] = << St("error", "failed_after", 0 - 1, max_retries[c], 0) >>
            /\ calls[c] = <<>>
            /\ outcomes[c] = <<>>
            /\ NumCalls(c) = 0
            /\ NumSleeps(c) = 0
            /\ slept[c] = 0
            /\ attempt[c] = 0 - 1

C19_Witness ==
    /\ dep_ok
    /\ max_retries["c1"] = 0
    /\ Failed("c1")
    /\ ret["c1"].line = 149
    /\ calls["c1"] = <<>>

====
